---- MODULE Spec2Model ----
(***************************************************************************)
(* The quantity engine of errorpro (src/errorpro/core.py: assign, formula, *)
(* params, fit, _find_all_dependencies) and the script runner              *)
(* (src/main.py).                                                          *)
(*                                                                         *)
(* Numbers are integers.  A numpy array is a record [shape, data] with the *)
(* data in row-major order; None is the array with no data.  A Dimension   *)
(* is the pair of exponents over the base dimensions (length, time); the   *)
(* unknown dimension None is the empty tuple.  A sympy expression is a     *)
(* tree <<"sym", q>>, <<"add", l, r>>, <<"mul", l, r>> whose leaves are    *)
(* the Quantities, identified by their position in the store.              *)
(***************************************************************************)
EXTENDS Integers, Sequences, FiniteSets, TLC

VARIABLES store, ignore, last, fits, pc, argv, config, syntax_trees, commands, idx, data, generated

vars == <<store, ignore, last, fits, pc, argv, config, syntax_trees, commands, idx, data, generated>>
coreVars == <<store, ignore, last, fits>>
mainVars == <<pc, argv, config, syntax_trees, commands, idx, data, generated>>

\* Bounds of the model.
MaxQ == 3
MaxQAssign == 2
MaxQShape == 2
MaxQGraph == 3
MaxQPlot == 3
MaxAbs == 100
MaxExp == 2
MaxFits == 1
MaxFiles == 2
MaxCmds == 2

None == "None"

(***************************************************************************)
(* numpy arrays                                                            *)
(***************************************************************************)
NoneArr == [shape |-> <<>>, data |-> <<>>]
Scalar(v) == [shape |-> <<>>, data |-> <<v>>]
IsNone(a) == a.data = <<>>

RECURSIVE Prod(_)
Prod(s) == IF s = <<>> THEN 1 ELSE Head(s) * Prod(Tail(s))

Iota(shape) == [shape |-> shape, data |-> [p \in 1..Prod(shape) |-> p]]

\* np.float_(factor) * np.float_(a)
Scale(factor, a) == [shape |-> a.shape, data |-> [p \in 1..Len(a.data) |-> factor * a.data[p]]]

\* np.resize(a, new_shape): the flattened data repeated to fill new_shape
Resize(a, new_shape) ==
    [shape |-> new_shape,
     data |-> [p \in 1..Prod(new_shape) |-> a.data[((p - 1) % Len(a.data)) + 1]]]

\* shape[-k:] of a Python tuple (shape[-0:] is the whole tuple)
LastAxes(shape, k) ==
    IF k = 0 \/ k >= Len(shape) THEN shape
    ELSE SubSeq(shape, Len(shape) - k + 1, Len(shape))

Max(a, b) == IF a >= b THEN a ELSE b
Abs(a) == IF a >= 0 THEN a ELSE -a

\* numpy broadcasting of two shapes, aligned at the last axis
PadShape(s, n) == [i \in 1..n |-> IF i <= n - Len(s) THEN 1 ELSE s[i - (n - Len(s))]]
CanBroadcast(s1, s2) ==
    LET n == Max(Len(s1), Len(s2))
        a == PadShape(s1, n)
        b == PadShape(s2, n)
    IN \A i \in 1..n : a[i] = b[i] \/ a[i] = 1 \/ b[i] = 1
BroadcastShape(s1, s2) ==
    LET n == Max(Len(s1), Len(s2))
        a == PadShape(s1, n)
        b == PadShape(s2, n)
    IN [i \in 1..n |-> Max(a[i], b[i])]
Stride(shape, i) == Prod(SubSeq(shape, i + 1, Len(shape)))
\* the element of a (padded to the rank of rs) that lands on flat position p of rs
BroadcastAt(a, rs, p) ==
    LET n == Len(rs)
        ps == PadShape(a.shape, n)
        off == [i \in 1..n |-> IF ps[i] = 1 THEN 0
                                ELSE (((p - 1) \div Stride(rs, i)) % rs[i]) * Stride(ps, i)]
        RECURSIVE Sum(_)
        Sum(i) == IF i = 0 THEN 0 ELSE off[i] + Sum(i - 1)
    IN a.data[Sum(n) + 1]
RECURSIVE ISqrtIn(_, _, _)
ISqrtIn(n, lo, hi) ==
    IF lo >= hi THEN lo
    ELSE LET mid == (lo + hi + 1) \div 2
         IN IF mid * mid <= n THEN ISqrtIn(n, mid, hi) ELSE ISqrtIn(n, lo, mid - 1)
\* the square root, rounded down
ISqrt(n) == ISqrtIn(n, 0, IF n < 46340 THEN n ELSE 46340)

\* x + y, x * y and sqrt(x**2 + y**2) on two numbers
Apply(op, x, y) ==
    CASE op = "add" -> x + y
      [] op = "mul" -> x * y
      [] op = "hypot" -> ISqrt(x * x + y * y)
\* the arithmetic of two arrays, broadcast and element by element
Elementwise(op, a, b) ==
    LET rs == BroadcastShape(a.shape, b.shape)
    IN [shape |-> rs,
        data |-> [p \in 1..Prod(rs) |-> Apply(op, BroadcastAt(a, rs, p), BroadcastAt(b, rs, p))]]

(***************************************************************************)
(* Dimension and the Unit Resolver                                         *)
(***************************************************************************)
Dimensionless == <<0, 0>>
NoDim == <<>>
Length == <<1, 0>>
Time == <<0, 1>>
DimMul(a, b) == <<a[1] + b[1], a[2] + b[2]>>
DimDiv(a, b) == <<a[1] - b[1], a[2] - b[2]>>

Units == {"m", "s", "min"}
\* parse_unit(unit) -> (factor, dim, unit)
parse_unit(unit) ==
    CASE unit = "m" -> [factor |-> 1, dim |-> Length, unit |-> "m"]
      [] unit = "s" -> [factor |-> 1, dim |-> Time, unit |-> "s"]
      [] unit = "min" -> [factor |-> 60, dim |-> Time, unit |-> "min"]

(***************************************************************************)
(* sympy expressions over Quantities                                       *)
(***************************************************************************)
NoExpr == <<"None">>
FitMark == <<"fit">>
Sym(q) == <<"sym", q>>
Add(l, r) == <<"add", l, r>>
Mul(l, r) == <<"mul", l, r>>
\* isinstance(f, Expr)
IsExpr(f) == f[1] \in {"sym", "add", "mul"}

RECURSIVE free_symbols(_)
free_symbols(e) ==
    CASE e[1] = "sym" -> {e[2]}
      [] e[1] \in {"add", "mul"} -> free_symbols(e[2]) \cup free_symbols(e[3])
      [] OTHER -> {}

\* expr.subs(q, content)
RECURSIVE subs(_, _, _)
subs(e, q, content) ==
    CASE e[1] = "sym" -> IF e[2] = q THEN content ELSE e
      [] e[1] \in {"add", "mul"} -> <<e[1], subs(e[2], q, content), subs(e[3], q, content)>>
      [] OTHER -> e

(***************************************************************************)
(* Quantity                                                                *)
(***************************************************************************)
\* Quantity(name): an empty quantity
Quantity ==
    [value |-> NoneArr, value_formula |-> NoExpr, error |-> NoneArr,
     error_formula |-> NoExpr, prefer_unit |-> None, dim |-> NoDim]

\* get_value(expr): the expression evaluated on the stored values
RECURSIVE get_value(_, _)
get_value(st, e) ==
    IF e[1] = "sym"
    THEN [ok |-> ~IsNone(st[e[2]].value), arr |-> st[e[2]].value]
    ELSE LET l == get_value(st, e[2])
             r == get_value(st, e[3])
         IN IF l.ok /\ r.ok /\ CanBroadcast(l.arr.shape, r.arr.shape)
            THEN [ok |-> TRUE,
                  arr |-> IF e[1] = "add" THEN Elementwise("add", l.arr, r.arr)
                          ELSE Elementwise("mul", l.arr, r.arr)]
            ELSE [ok |-> FALSE, arr |-> NoneArr]

\* get_dimension(expr): the expression evaluated in the Dimension algebra
\* (it raises when a leaf has no dimension or a sum adds two dimensions)
RECURSIVE get_dimension(_, _)
get_dimension(st, e) ==
    IF e[1] = "sym"
    THEN [ok |-> st[e[2]].dim # NoDim, dim |-> st[e[2]].dim]
    ELSE LET l == get_dimension(st, e[2])
             r == get_dimension(st, e[3])
         IN IF ~(l.ok /\ r.ok) THEN [ok |-> FALSE, dim |-> NoDim]
            ELSE IF e[1] = "mul" THEN [ok |-> TRUE, dim |-> DimMul(l.dim, r.dim)]
            ELSE IF l.dim = r.dim THEN [ok |-> TRUE, dim |-> l.dim]
            ELSE [ok |-> FALSE, dim |-> NoDim]

\* the value of the partial derivative of e with respect to the quantity x
RECURSIVE DiffValue(_, _, _)
DiffValue(st, e, x) ==
    IF e[1] = "sym" THEN Scalar(IF e[2] = x THEN 1 ELSE 0)
    ELSE IF e[1] = "add"
         THEN Elementwise("add", DiffValue(st, e[2], x), DiffValue(st, e[3], x))
         ELSE Elementwise("add",
                 Elementwise("mul", DiffValue(st, e[2], x), get_value(st, e[3]).arr),
                 Elementwise("mul", get_value(st, e[2]).arr, DiffValue(st, e[3], x)))

RECURSIVE Quadrature(_, _, _)
Quadrature(st, e, xs) ==
    IF xs = {} THEN Scalar(0)
    ELSE LET x == CHOOSE y \in xs : \A z \in xs : y <= z
             term == Elementwise("mul", DiffValue(st, e, x), st[x].error)
         IN Elementwise("hypot", term, Quadrature(st, e, xs \ {x}))

\* get_error(expr) -> (error, error_formula): first-order Gaussian propagation
get_error(st, e) ==
    [error |-> Quadrature(st, e, {x \in free_symbols(e) : ~IsNone(st[x].error)}),
     error_formula |-> <<"err", e>>]

(***************************************************************************)
(* assign                                                                  *)
(***************************************************************************)
\* the factor and the Dimension() assign starts from
NoUnit == [factor |-> 1, dim |-> Dimensionless, unit |-> None]

\* ParseUnits with a combined unit that leaves a given error_unit in place
ParseUnitsKeepErrorUnit(unit, value_unit, error_unit) ==
    LET v == IF unit # None THEN parse_unit(unit)
             ELSE IF value_unit # None THEN parse_unit(value_unit) ELSE NoUnit
        e == IF error_unit # None THEN parse_unit(error_unit)
             ELSE IF unit # None THEN parse_unit(unit) ELSE NoUnit
    IN [ok |-> ~(unit = None /\ error_unit # None /\ v.unit # None /\ ~(v.dim = e.dim)),
        value_factor |-> v.factor, value_dim |-> v.dim, value_unit |-> v.unit,
        error_factor |-> e.factor, error_dim |-> e.dim, error_unit |-> e.unit]

\* assign, "parse units"
ParseUnits(unit, value_unit, error_unit) ==
    IF unit # None
    THEN LET u == parse_unit(unit)
         IN [ok |-> TRUE,
             value_factor |-> u.factor, value_dim |-> u.dim, value_unit |-> u.unit,
             error_factor |-> u.factor, error_dim |-> u.dim, error_unit |-> u.unit]
    ELSE LET v == IF value_unit # None THEN parse_unit(value_unit) ELSE NoUnit
             e == IF error_unit # None THEN parse_unit(error_unit) ELSE NoUnit
         IN [ok |-> ~(error_unit # None /\ v.unit # None /\ ~(v.dim = e.dim)),
             value_factor |-> v.factor, value_dim |-> v.dim, value_unit |-> v.unit,
             error_factor |-> e.factor, error_dim |-> e.dim, error_unit |-> e.unit]

Raise(what) ==
    [outcome |-> what, value |-> NoneArr, value_formula |-> NoExpr, value_dim |-> NoDim,
     error |-> NoneArr, error_formula |-> NoExpr]

\* ProcessValue without the comparison of the calculated and the declared dimension
ProcessValueUnchecked(st, value, u, ignore_dim) ==
    IF value.kind = "expr"
    THEN LET v == get_value(st, value.e)
             calculated == get_dimension(st, value.e)
             done == [Raise("ok") EXCEPT !.value_formula = value.e]
         IN IF ~v.ok THEN Raise("evaluation error")
            ELSE IF ignore_dim
            THEN [done EXCEPT !.value = Scale(u.value_factor, v.arr), !.value_dim = u.value_dim]
            ELSE IF ~calculated.ok THEN Raise("dimension mismatch")
            ELSE [done EXCEPT !.value = v.arr,
                              !.value_dim = IF u.value_unit = None THEN calculated.dim
                                            ELSE u.value_dim]
    ELSE [Raise("ok") EXCEPT !.value = Scale(u.value_factor, value.arr),
                             !.value_dim = u.value_dim]

\* assign, "process value"
ProcessValue(st, value, u, ignore_dim) ==
    IF value.kind = "expr"
    THEN LET v == get_value(st, value.e)
             calculated == get_dimension(st, value.e)
             done == [Raise("ok") EXCEPT !.value_formula = value.e]
         IN IF ~v.ok THEN Raise("evaluation error")
            ELSE IF ignore_dim
            THEN [done EXCEPT !.value = Scale(u.value_factor, v.arr), !.value_dim = u.value_dim]
            ELSE IF ~calculated.ok THEN Raise("dimension mismatch")
            ELSE IF u.value_unit = None
            THEN [done EXCEPT !.value = v.arr, !.value_dim = calculated.dim]
            ELSE IF ~(calculated.dim = u.value_dim) THEN Raise("dimension mismatch")
            ELSE [done EXCEPT !.value = v.arr, !.value_dim = u.value_dim]
    ELSE [Raise("ok") EXCEPT !.value = Scale(u.value_factor, value.arr),
                             !.value_dim = u.value_dim]

\* ShapesMatch that compares the error's shape with the leading axes of the value
ShapesMatchLeading(value_shape, error_shape) ==
    \/ error_shape = <<>>
    \/ /\ Len(error_shape) <= Len(value_shape)
       /\ SubSeq(value_shape, 1, Len(error_shape)) = error_shape

\* assign, "check value and error shapes"
ShapesMatch(value_shape, error_shape) ==
    error_shape = <<>> \/ LastAxes(value_shape, Len(error_shape)) = error_shape

\* ProcessError that prefers the calculated error to the given one
ProcessErrorCalculatedFirst(st, error, pv, u, ignore_dim) ==
    IF pv.value_formula # NoExpr
    THEN LET g == get_error(st, pv.value_formula)
         IN [pv EXCEPT !.error = IF ignore_dim THEN Scale(u.error_factor, g.error)
                                  ELSE g.error,
                       !.error_formula = g.error_formula]
    ELSE IF ~IsNone(error)
    THEN LET e == Scale(u.error_factor, error)
         IN IF ShapesMatch(pv.value.shape, e.shape)
            THEN [pv EXCEPT !.error = Resize(e, pv.value.shape)]
            ELSE Raise("shape mismatch")
    ELSE pv

\* assign, "process error", on the outcome pv of "process value"
ProcessError(st, error, pv, u, ignore_dim) ==
    IF ~IsNone(error)
    THEN LET e == Scale(u.error_factor, error)
         IN IF ShapesMatch(pv.value.shape, e.shape)
            THEN [pv EXCEPT !.error = Resize(e, pv.value.shape)]
            ELSE Raise("shape mismatch")
    ELSE IF pv.value_formula # NoExpr
    THEN LET g == get_error(st, pv.value_formula)
         IN [pv EXCEPT !.error = IF ignore_dim THEN Scale(u.error_factor, g.error)
                                  ELSE g.error,
                       !.error_formula = g.error_formula]
    ELSE pv

\* assign, the Quantity built at the end
NewQuantity(pe, u) ==
    [value |-> pe.value, value_formula |-> pe.value_formula, error |-> pe.error,
     error_formula |-> pe.error_formula,
     prefer_unit |-> IF u.value_unit # None THEN u.value_unit ELSE u.error_unit,
     dim |-> pe.value_dim]

\* assign(value, error, unit, value_unit, error_unit, ignore_dim) on the
\* quantities st: the outcome ("ok" or the error raised) and the new Quantity
Built(u, pv, pe) ==
    IF ~u.ok THEN [outcome |-> "dimension mismatch", q |-> Quantity]
    ELSE IF pv.outcome # "ok" THEN [outcome |-> pv.outcome, q |-> Quantity]
    ELSE IF pe.outcome # "ok" THEN [outcome |-> pe.outcome, q |-> Quantity]
    ELSE [outcome |-> "ok", q |-> NewQuantity(pe, u)]
\* pv is the outcome of "process value", u that of "parse units"
WithValue(st, error, ignore_dim, u, pv) ==
    Built(u, pv, ProcessError(st, error, pv, u, ignore_dim))
WithUnits(st, value, error, ignore_dim, u) ==
    WithValue(st, error, ignore_dim, u, ProcessValue(st, value, u, ignore_dim))
assign(st, value, error, unit, value_unit, error_unit, ignore_dim) ==
    WithUnits(st, value, error, ignore_dim, ParseUnits(unit, value_unit, error_unit))

(***************************************************************************)
(* The calls and their record                                              *)
(***************************************************************************)
Number(a) == [kind |-> "num", arr |-> a, e |-> NoExpr]
Formula(e) == [kind |-> "expr", arr |-> NoneArr, e |-> e]

\* the record of a call: its operation, its arguments, the number n of
\* quantities before it, its outcome and the Quantity it returned (0: none)
NoCall ==
    [op |-> "none", outcome |-> "ok", n |-> 0, result |-> 0,
     value |-> Number(NoneArr), error |-> NoneArr, unit |-> None, value_unit |-> None,
     error_unit |-> None, ignore_dim |-> FALSE, params |-> {}, expr |-> NoExpr,
     find |-> 0, found |-> NoExpr]

\* the script runner is not running
MainIdle ==
    /\ pc = "idle" /\ argv = <<>> /\ config = [directory |-> "."] /\ syntax_trees = <<>>
    /\ commands = <<>> /\ idx = 0 /\ data = <<>> /\ generated = <<>>

\* the record of a call of assign that returned r, stored as Quantity number at
Assigned(r, at, value, error, unit, value_unit, error_unit, ignore_dim) ==
    [NoCall EXCEPT !.op = "assign", !.outcome = r.outcome, !.n = Len(store),
                   !.result = IF r.outcome = "ok" THEN at ELSE 0,
                   !.value = value, !.error = error, !.unit = unit,
                   !.value_unit = value_unit, !.error_unit = error_unit,
                   !.ignore_dim = ignore_dim]
\* the first quantity a formula uses, 0 for a number
First(value) ==
    IF value.kind = "expr"
    THEN CHOOSE q \in free_symbols(value.e) : \A j \in free_symbols(value.e) : q <= j
    ELSE 0
StoredInPlace(r, first, value, error, unit, value_unit, error_unit, ignore_dim) ==
    /\ store' = IF r.outcome # "ok" THEN store
                ELSE IF first = 0 THEN Append(store, r.q)
                ELSE [store EXCEPT ![first] = r.q]
    /\ last' = Assigned(r, IF first = 0 THEN Len(store) + 1 ELSE first,
                        value, error, unit, value_unit, error_unit, ignore_dim)
    /\ UNCHANGED <<ignore, fits, mainVars>>
\* Assign that stores the Quantity of a formula in place of the first quantity
\* the formula uses, instead of making a new one
AssignInPlace(value, error, unit, value_unit, error_unit, ignore_dim) ==
    StoredInPlace(assign(store, value, error, unit, value_unit, error_unit, ignore_dim),
                  First(value), value, error, unit, value_unit, error_unit, ignore_dim)

\* the Quantity assign returns is a new one, after those there are
Stored(r, value, error, unit, value_unit, error_unit, ignore_dim) ==
    /\ store' = IF r.outcome = "ok" THEN Append(store, r.q) ELSE store
    /\ last' = Assigned(r, Len(store) + 1, value, error, unit, value_unit, error_unit,
                        ignore_dim)
    /\ UNCHANGED <<ignore, fits, mainVars>>
Assign(value, error, unit, value_unit, error_unit, ignore_dim) ==
    Stored(assign(store, value, error, unit, value_unit, error_unit, ignore_dim),
           value, error, unit, value_unit, error_unit, ignore_dim)

\* the quantities a formula of the model may use: those with a value of
\* bounded magnitude
Usable(st) ==
    {i \in 1..Len(st) :
        /\ \A p \in 1..Len(st[i].value.data) : Abs(st[i].value.data[p]) <= MaxAbs
        /\ \A p \in 1..Len(st[i].error.data) : Abs(st[i].error.data[p]) <= MaxAbs}
Exprs(ids) ==
    {Sym(i) : i \in ids}
    \cup {Add(Sym(i), Sym(j)) : i \in ids, j \in ids}
    \cup {Mul(Sym(i), Sym(j)) : i \in ids, j \in ids}
Ordered(e) == e[1] = "sym" \/ e[2][2] <= e[3][2]

InitCore == store = <<>> /\ ignore = <<>> /\ last = NoCall /\ fits = 0 /\ MainIdle

(***************************************************************************)
(* formula and params                                                      *)
(***************************************************************************)
\* formula(quantity): raises when the quantity has no error formula
FormulaCall(q) ==
    /\ last' = [NoCall EXCEPT !.op = "formula", !.n = Len(store), !.find = q,
                              !.outcome = IF store[q].error_formula = NoExpr
                                          THEN "no error formula" ELSE "ok"]
    /\ UNCHANGED <<store, ignore, fits, mainVars>>

\* params(*names): one empty Quantity for each of the k names
Params(k) ==
    /\ store' = store \o [i \in 1..k |-> Quantity]
    /\ last' = [NoCall EXCEPT !.op = "params", !.n = Len(store), !.result = Len(store) + 1]
    /\ UNCHANGED <<ignore, fits, mainVars>>

(***************************************************************************)
(* The Dimension Solver                                                    *)
(***************************************************************************)
\* the exponent of base dimension c of the expression e, the quantities of
\* unknown dimension having the exponents a
RECURSIVE Exponent(_, _, _, _)
Exponent(e, c, dims, a) ==
    IF e[1] = "sym"
    THEN [ok |-> TRUE, v |-> IF e[2] \in DOMAIN a THEN a[e[2]] ELSE dims[e[2]][c]]
    ELSE LET l == Exponent(e[2], c, dims, a)
             r == Exponent(e[3], c, dims, a)
         IN IF ~(l.ok /\ r.ok) THEN [ok |-> FALSE, v |-> 0]
            ELSE IF e[1] = "mul" THEN [ok |-> TRUE, v |-> l.v + r.v]
            ELSE [ok |-> l.v = r.v, v |-> l.v]

\* the sum of the magnitudes of the known exponents at the leaves of e
RECURSIVE LeafWeight(_, _, _, _)
LeafWeight(e, c, dims, unknown) ==
    IF e[1] = "sym"
    THEN IF e[2] \in unknown THEN 0 ELSE Abs(dims[e[2]][c])
    ELSE LeafWeight(e[2], c, dims, unknown) + LeafWeight(e[3], c, dims, unknown)

\* the solutions of the linear system of one base dimension
Solutions(func, c, target, dims, unknown) ==
    LET b == 1 + Abs(target[c]) + LeafWeight(func, c, dims, unknown)
    IN {a \in [unknown -> (0 - b)..b] :
           LET x == Exponent(func, c, dims, a) IN x.ok /\ x.v = target[c]}

\* the quantities of func whose dimension the solver has to find
Unknown(func, known_dim) ==
    {q \in free_symbols(func) : q \notin DOMAIN known_dim \/ known_dim[q] = NoDim}
\* the one solution one of each base dimension, when there is exactly one
Solved(func, unknown, dims, solutions) ==
    IF \E c \in 1..2 : Cardinality(solutions[c]) # 1
    THEN [ok |-> FALSE, dims |-> <<>>]
    ELSE [ok |-> TRUE,
          dims |-> [q \in free_symbols(func) |->
                       IF q \in unknown
                       THEN <<(CHOOSE a \in solutions[1] : TRUE)[q],
                              (CHOOSE a \in solutions[2] : TRUE)[q]>>
                       ELSE dims[q]]]
SolveFor(func, target, unknown, dims) ==
    Solved(func, unknown, dims,
           [c \in 1..2 |-> IF target = NoDim THEN {}
                           ELSE Solutions(func, c, target, dims, unknown)])
\* dim_solve(func, dim, known_dim): the dimension of every quantity of func,
\* when those the known dimensions leave open are determined uniquely
dim_solve(func, target, known_dim) ==
    SolveFor(func, target, Unknown(func, known_dim),
             [q \in free_symbols(func) \ Unknown(func, known_dim) |-> known_dim[q]])

(***************************************************************************)
(* fit                                                                     *)
(***************************************************************************)
\* fit, "save dimensions to quantities"
SaveDimensions(st, func, known_dim) ==
    [i \in 1..Len(st) |->
        IF i \in free_symbols(func) /\ ~(st[i].dim = known_dim[i])
        THEN [st[i] EXCEPT !.dim = known_dim[i], !.prefer_unit = None]
        ELSE st[i]]

\* fit, "find out function dimension": None when get_dimension raises
FuncDim(d) == IF d.ok THEN d.dim ELSE NoDim
\* fit, the dimensions of the quantities of func that are no parameters
KnownDim(st, func, params) == [q \in free_symbols(func) \ params |-> st[q].dim]
\* fit, "if it still doesn't work, raise error", on the quantities saved
Rechecked(ydata, saved, again) ==
    IF ~again.ok THEN [outcome |-> "dimension mismatch", st |-> saved]
    ELSE IF ~(again.dim = saved[ydata].dim) THEN [outcome |-> "dimensions not found", st |-> saved]
    ELSE [outcome |-> "ok", st |-> saved]
Saved(func, ydata, saved) == Rechecked(ydata, saved, get_dimension(saved, func))
\* fit, "try to find right parameters dimensions"
FindDimensions(st, func, ydata, solved) ==
    IF ~solved.ok THEN [outcome |-> "unsolvable dimension", st |-> st]
    ELSE Saved(func, ydata, SaveDimensions(st, func, solved.dims))
\* fit, "check if dimension is right": the outcome and the quantities after it
CheckDimension(st, func, ydata, params) ==
    IF FuncDim(get_dimension(st, func)) = st[ydata].dim THEN [outcome |-> "ok", st |-> st]
    ELSE FindDimensions(st, func, ydata,
                        dim_solve(func, st[ydata].dim, KnownDim(st, func, params)))

\* fitting.fit needs the data and the value of every quantity of func that is no
\* parameter
CanFit(st, func, xdata, ydata, params) ==
    \A q \in {xdata, ydata} \cup (free_symbols(func) \ params) : ~IsNone(st[q].value)
FitValue == Scalar(7)
FitError == Scalar(3)

\* fit, "save results"
SaveResults(st, params) ==
    [i \in 1..Len(st) |->
        IF i \in params
        THEN [st[i] EXCEPT !.value = FitValue, !.value_formula = FitMark,
                           !.error = FitError, !.error_formula = FitMark]
        ELSE st[i]]

\* fit, from "fit" on: checked is the outcome of the dimension check
FitResults(params, checked, fitted) ==
    /\ store' = IF checked.outcome = "ok" /\ fitted THEN SaveResults(checked.st, params)
                ELSE checked.st
    /\ last' = [NoCall EXCEPT !.op = "fit", !.n = Len(store), !.params = params,
                              !.outcome = IF checked.outcome # "ok" THEN checked.outcome
                                          ELSE IF fitted THEN "ok" ELSE "fit failed"]
    /\ fits' = fits + 1 /\ UNCHANGED <<ignore, mainVars>>
FitChecked(func, xdata, ydata, params, converged, checked) ==
    FitResults(params, checked, converged /\ CanFit(checked.st, func, xdata, ydata, params))
\* fit, after "replace xvar by xdata"
FitFunction(func, xdata, ydata, params, ignore_dim, converged) ==
    FitChecked(func, xdata, ydata, params, converged,
               IF ignore_dim THEN [outcome |-> "ok", st |-> store]
               ELSE CheckDimension(store, func, ydata, params))
\* fit(func, xdata, ydata, params, xvar, ignore_dim) with Quantities as xdata
\* and ydata; xvar = 0 is None; converged is the answer of fitting.fit; fits
\* counts the calls of fit
Fit(func, xdata, ydata, params, xvar, ignore_dim, converged) ==
    FitFunction(IF xvar # 0 /\ xvar # xdata THEN subs(func, xvar, Sym(xdata)) ELSE func,
                xdata, ydata, params, ignore_dim, converged)

(***************************************************************************)
(* _find_all_dependencies                                                  *)
(***************************************************************************)
InSeq(x, seq) == \E i \in 1..Len(seq) : seq[i] = x
\* the elements of a set of quantities in the order the iteration visits them
RECURSIVE Iteration(_, _)
Iteration(S, descending) ==
    IF S = {} THEN <<>>
    ELSE LET x == IF descending THEN CHOOSE y \in S : \A z \in S : y >= z
                  ELSE CHOOSE y \in S : \A z \in S : y <= z
         IN <<x>> \o Iteration(S \ {x}, descending)

\* _find_all_dependencies(expr, find, ignore): the unpacked expression and the
\* list ignore after the call (the call appends to the list it is given)
RECURSIVE find_all_dependencies(_, _, _, _, _)
RECURSIVE Unpack(_, _, _, _, _, _)
find_all_dependencies(st, expr, find, ign, descending) ==
    Unpack(st, expr, Iteration(free_symbols(expr), descending), find, ign, descending)
\* the loop "for q in expr.free_symbols" over the quantities qs still to visit
Unpack(st, unpacked, qs, find, ign, descending) ==
    IF qs = <<>> THEN [expr |-> unpacked, ignore |-> ign]
    ELSE LET q == Head(qs)
         IN IF ~InSeq(q, ign) /\ IsExpr(st[q].value_formula)
            THEN LET content == find_all_dependencies(st, st[q].value_formula, find,
                                                      Append(ign, q), descending)
                 IN Unpack(st,
                           IF find \in free_symbols(content.expr)
                           THEN subs(unpacked, q, content.expr) ELSE unpacked,
                           Tail(qs), find, content.ignore, descending)
            ELSE Unpack(st, unpacked, Tail(qs), find, ign, descending)

\* _find_all_dependencies(expr, find): ignore is the list the def statement made
Found(r, expr, find) ==
    /\ ignore' = r.ignore
    /\ last' = [NoCall EXCEPT !.op = "find", !.n = Len(store), !.expr = expr,
                              !.find = find, !.found = r.expr]
    /\ UNCHANGED <<store, fits, mainVars>>
FindAllDependencies(expr, find, descending) ==
    Found(find_all_dependencies(store, expr, find, ignore, descending), expr, find)

\* the caller takes the result of the call: the next call starts from there
Return == last.op # "none" /\ last' = NoCall /\ UNCHANGED <<store, ignore, fits, mainVars>>
Idle == last.op = "none"

(***************************************************************************)
(* assign with every combination of units                                  *)
(***************************************************************************)
UnitChoices ==
    {<<unit, vu, eu>> : unit \in {None, "min"}, vu \in {None, "m", "min"}, eu \in {None, "s", "min"}}

AssignUnits ==
    /\ Idle /\ Len(store) < MaxQAssign
    /\ \E value \in {Number(Scalar(1))} \cup {Formula(e) : e \in {x \in Exprs(Usable(store)) : Ordered(x)}},
          error \in {NoneArr, Scalar(1)}, u \in UnitChoices, ignore_dim \in BOOLEAN :
          Assign(value, error, u[1], u[2], u[3], ignore_dim)

NextAssign == AssignUnits \/ Return
SpecAssign == InitCore /\ [][NextAssign]_vars

\* the Quantity the last call returned
Returned == store[last.result]
Succeeded == last.op = "assign" /\ last.outcome = "ok"
\* the call failed and produced no Quantity
FailedWith(what) == last.outcome = what /\ last.result = 0 /\ Len(store) = last.n

\* C1: assign of a formula with a declared unit (unit or value_unit) succeeds
\* only if the dimension computed from the formula equals the declared one and
\* otherwise fails with "dimension mismatch" producing no Quantity; with
\* ignore_dim the check is skipped, the computed value is rescaled by the
\* declared unit's factor and the Quantity gets the declared dimension.
C1_DeclaredDimension ==
    (last.op = "assign" /\ last.value.kind = "expr" /\ (last.unit # None \/ last.value_unit # None)) =>
        LET declared == parse_unit(IF last.unit # None THEN last.unit ELSE last.value_unit)
            computed == get_dimension(store, last.value.e)
            same == computed.ok /\ computed.dim = declared.dim
        IN IF last.ignore_dim
           THEN last.outcome = "ok" =>
                    /\ Returned.value = Scale(declared.factor, get_value(store, last.value.e).arr)
                    /\ Returned.dim = declared.dim
           ELSE /\ last.outcome = "ok" => same /\ Len(store) = last.n + 1
                /\ ~same => FailedWith("dimension mismatch")
C1_Witness ==
    /\ last.op = "assign" /\ last.value.kind = "expr" /\ last.value_unit = "m"
    /\ ~last.ignore_dim /\ get_dimension(store, last.value.e).dim = Time
    /\ FailedWith("dimension mismatch")

\* C2: a combined unit is used for value and error and replaces value_unit and
\* error_unit; separate value and error units of different dimensions make
\* assign fail with "dimension mismatch", whatever the value and the error.
C2_UnitsFirst ==
    last.op = "assign" =>
        /\ last.unit # None =>
              LET u == parse_unit(last.unit)
                  alone == assign(SubSeq(store, 1, last.n), last.value, last.error,
                                  last.unit, None, None, last.ignore_dim)
              IN /\ last.outcome = alone.outcome
                 /\ last.outcome = "ok" =>
                       /\ Returned = alone.q
                       /\ Returned.prefer_unit = u.unit
                       /\ last.value.kind = "num" => Returned.value = Scale(u.factor, last.value.arr)
                       /\ ~IsNone(last.error) => Returned.error.data = Scale(u.factor, last.error).data
        /\ (/\ last.unit = None /\ last.value_unit # None /\ last.error_unit # None
            /\ parse_unit(last.value_unit).dim # parse_unit(last.error_unit).dim)
              => FailedWith("dimension mismatch")
C2_Witness ==
    /\ Succeeded /\ last.unit = "min" /\ last.value_unit = "m" /\ last.error_unit = "s"
    /\ ~IsNone(last.error) /\ Returned.dim = Time /\ Returned.error = Scalar(60)

\* C4: an explicit error is stored scaled by the error unit's factor and there
\* is no error_formula, even for a formula value; else a formula value gets the
\* propagated error and error_formula, rescaled by the error unit's factor only
\* under ignore_dim; else there is neither error nor error_formula.
C4_ErrorPrecedence ==
    Succeeded =>
        LET error_factor == IF last.unit # None THEN parse_unit(last.unit).factor
                            ELSE IF last.error_unit # None THEN parse_unit(last.error_unit).factor
                            ELSE 1
            propagated == get_error(store, last.value.e)
        IN IF ~IsNone(last.error)
           THEN /\ Returned.error.data = Scale(error_factor, last.error).data
                /\ Returned.error_formula = NoExpr
           ELSE IF last.value.kind = "expr"
           THEN /\ Returned.error = IF last.ignore_dim THEN Scale(error_factor, propagated.error)
                                    ELSE propagated.error
                /\ Returned.error_formula = <<"err", last.value.e>>
           ELSE IsNone(Returned.error) /\ Returned.error_formula = NoExpr
C4_Witness ==
    /\ Succeeded /\ last.value.kind = "expr" /\ ~IsNone(last.error) /\ last.error_unit = "min"
    /\ ~IsNone(store[1].error) /\ Returned.error = Scalar(60) /\ Returned.value_formula # NoExpr

\* C10: the Quantity assign returns prefers the value unit if one was given,
\* else the error unit, else no unit, and a preferred unit has the Quantity's
\* dimension.
C10_PreferUnit ==
    Succeeded =>
        LET value_unit == IF last.unit # None THEN last.unit ELSE last.value_unit
            error_unit == IF last.unit # None THEN last.unit ELSE last.error_unit
        IN /\ Returned.prefer_unit = IF value_unit # None THEN value_unit ELSE error_unit
           /\ Returned.prefer_unit # None => parse_unit(Returned.prefer_unit).dim = Returned.dim

(***************************************************************************)
(* assign with arrays of every shape                                       *)
(***************************************************************************)
ValueShapes == {<<>>, <<3>>, <<4>>, <<2, 3>>, <<3, 4>>}
ErrorShapes == {<<>>, <<3>>, <<4>>, <<2, 3>>, <<3, 4>>, <<1, 4>>, <<2, 3, 4>>}

AssignShapes ==
    /\ Idle /\ Len(store) < MaxQShape
    /\ \E value \in {Number(Iota(s)) : s \in ValueShapes}
                    \cup {Formula(e) : e \in {x \in Exprs(Usable(store)) : Ordered(x)}},
          error \in {NoneArr} \cup {Iota(s) : s \in ErrorShapes}, unit \in {None, "min"} :
          Assign(value, error, unit, None, None, FALSE)

NextShape == AssignShapes \/ Return
SpecShape == InitCore /\ [][NextShape]_vars

\* the value assign computes from its argument, before the error is looked at
ValueOf(value) == IF value.kind = "num" THEN value.arr ELSE get_value(store, value.e).arr
\* es is vs without its first Len(vs) - Len(es) axes
TrailingShape(vs, es) ==
    /\ Len(es) <= Len(vs)
    /\ \A i \in 1..Len(es) : vs[Len(vs) - Len(es) + i] = es[i]

\* C3: a given error that is scalar, or of the value's shape, or of the shape
\* of the value's last axes is stored with the value's shape, every block
\* along the leading axes being the given error (scaled); any other error
\* shape makes assign fail with "shape mismatch".
C3_ErrorShape ==
    (last.op = "assign" /\ ~IsNone(last.error) /\ last.outcome \in {"ok", "shape mismatch"}) =>
        LET es == last.error.shape
            vs == ValueOf(last.value).shape
            factor == IF last.unit # None THEN parse_unit(last.unit).factor ELSE 1
            block == Prod(es)
        IN IF TrailingShape(vs, es)
           THEN /\ last.outcome = "ok"
                /\ Returned.error.shape = vs
                /\ Len(Returned.error.data) = Prod(vs)
                /\ \A lead \in 0..(Prod(vs) \div block) - 1 : \A t \in 1..block :
                      Returned.error.data[lead * block + t] = factor * last.error.data[t]
           ELSE FailedWith("shape mismatch")
C3_Witness ==
    /\ Succeeded /\ last.value.kind = "num" /\ last.value.arr.shape = <<3, 4>>
    /\ last.error.shape = <<4>> /\ last.unit = "min"
    /\ Returned.error.shape = <<3, 4>>
    /\ Returned.error.data = <<60, 120, 180, 240, 60, 120, 180, 240, 60, 120, 180, 240>>

(***************************************************************************)
(* Any sequence of assign, params, formula and fit                         *)
(***************************************************************************)
Ids == 1..Len(store)
\* the exponents of the dimensions stay within the bound
Bounded(st) ==
    \A i \in 1..Len(st) : \A c \in 1..Len(st[i].dim) : Abs(st[i].dim[c]) <= MaxExp

AssignAny ==
    /\ Idle /\ Len(store) < MaxQ
    /\ \/ \E unit \in {None, "m", "s"} :
             Assign(Number(Scalar(1)), Scalar(1), unit, None, None, FALSE)
       \/ \E e \in {x \in Exprs(Usable(store)) : Ordered(x)}, unit \in {None, "m"} :
             Assign(Formula(e), NoneArr, unit, None, None, FALSE)
    /\ Bounded(store')

ParamsAny == Idle /\ \E k \in 1..2 : Len(store) + k <= MaxQ /\ Params(k)

FormulaAny == Idle /\ \E q \in Ids : FormulaCall(q)

\* the fit function is p, p + x or p * x of a parameter p and the x-axis
\* variable x, which is xdata itself or is named as xvar
FitAny ==
    /\ Idle /\ fits < MaxFits
    /\ \E p \in Ids, x \in Ids, ydata \in Ids :
          /\ p # x
          /\ \E func \in {Sym(p), Add(Sym(p), Sym(x)), Mul(Sym(p), Sym(x))},
                xdata \in {x, ydata}, params \in {{p}, {p, ydata}},
                ignore_dim \in BOOLEAN, converged \in BOOLEAN :
                Fit(func, xdata, ydata, params, IF x = xdata THEN 0 ELSE x, ignore_dim, converged)
    /\ Bounded(store')

Next == AssignAny \/ ParamsAny \/ FormulaAny \/ FitAny \/ Return
Spec == InitCore /\ [][Next]_vars

\* the fields of a Quantity the fit results go to, and the others
Results(q) == <<q.value, q.error, q.value_formula, q.error_formula>>
DimUnit(q) == <<q.dim, q.prefer_unit>>
ErrorOutcomes ==
    {"dimension mismatch", "shape mismatch", "unsolvable dimension", "dimensions not found"}

\* C6: a call changes an existing Quantity only if it is fit; fit changes value,
\* error and the formulas only of its parameters, to the fit results, and sets
\* dim (clearing prefer_unit) only on a quantity whose dimension was unknown.
C6_OnlyFitChanges ==
    [][/\ Len(store') >= Len(store)
       /\ \A i \in 1..Len(store) :
             store'[i] # store[i] =>
                /\ last'.op = "fit"
                /\ Results(store'[i]) # Results(store[i]) =>
                      /\ i \in last'.params
                      /\ Results(store'[i]) = <<FitValue, FitError, FitMark, FitMark>>
                /\ DimUnit(store'[i]) # DimUnit(store[i]) =>
                      /\ store[i].dim = NoDim
                      /\ store'[i].prefer_unit = None]_vars

\* C7: a call of assign or fit that fails with a dimension mismatch, a shape
\* mismatch or an unsolvable dimension leaves every Quantity as it was.
C7_FailureChangesNothing ==
    [][(last'.op \in {"assign", "fit"} /\ last'.outcome \in ErrorOutcomes) => store' = store]_vars

(***************************************************************************)
(* The graph of the formulas under assign, params and fit                  *)
(***************************************************************************)
AssignGraph ==
    /\ Idle /\ Len(store) < MaxQGraph
    /\ \/ Assign(Number(Scalar(1)), Scalar(1), None, None, None, FALSE)
       \/ \E e \in {x \in Exprs(Usable(store)) : Ordered(x)} :
             Assign(Formula(e), NoneArr, None, None, None, FALSE)

ParamsGraph == Idle /\ Len(store) < MaxQGraph /\ Params(1)

FitGraph ==
    /\ Idle /\ fits < MaxFits
    /\ \E p \in Ids, x \in Ids, ydata \in Ids :
          /\ p # x
          /\ \E func \in {Add(Sym(p), Sym(x)), Mul(Sym(p), Sym(x))}, ignore_dim \in BOOLEAN,
                converged \in BOOLEAN :
                Fit(func, x, ydata, {p}, 0, ignore_dim, converged)

NextGraph == AssignGraph \/ ParamsGraph \/ FitGraph \/ Return
SpecGraph == InitCore /\ [][NextGraph]_vars

\* the quantities the value_formula of quantity i refers to
References(st, i) ==
    IF IsExpr(st[i].value_formula) THEN free_symbols(st[i].value_formula) ELSE {}
\* the quantities reached from S in at most n more steps
RECURSIVE Reached(_, _, _)
Reached(st, S, n) ==
    IF n = 0 THEN S ELSE Reached(st, S \cup UNION {References(st, j) : j \in S}, n - 1)

\* C5: after any sequence of assign, params and fit no Quantity is reached from
\* itself along the references of the value formulas: the graph is acyclic.
C5_Acyclic ==
    \A i \in 1..Len(store) : i \notin Reached(store, References(store, i), Len(store))
C5_Witness ==
    /\ last.op = "fit" /\ last.outcome = "ok" /\ Len(store) = 3
    /\ store[1].value_formula = FitMark
    /\ 1 \in References(store, 2) /\ 2 \in References(store, 3)

(***************************************************************************)
(* plot's use of _find_all_dependencies on quantities made by assign       *)
(***************************************************************************)
AssignPlot ==
    /\ Idle /\ Len(store) < MaxQPlot
    /\ \/ Assign(Number(Scalar(1)), NoneArr, None, None, None, FALSE)
       \/ \E e \in {x \in Exprs(Usable(store)) : x[1] # "add" /\ Ordered(x)} :
             Assign(Formula(e), NoneArr, None, None, None, FALSE)

FindAny ==
    /\ Idle
    /\ \E expr \in {x \in Exprs(Ids) : x[1] # "mul" /\ Ordered(x)}, find \in Ids,
          descending \in BOOLEAN : FindAllDependencies(expr, find, descending)

NextPlot == AssignPlot \/ FindAny \/ Return
SpecPlot == InitCore /\ [][NextPlot]_vars

\* quantity q depends on find through the value formulas
DependsOn(st, q, find) == find \in Reached(st, References(st, q), Len(st))
\* expr with every quantity that depends on find replaced by its unpacked formula
RECURSIVE Unpacked(_, _, _)
Unpacked(st, expr, find) ==
    IF expr[1] = "sym"
    THEN IF DependsOn(st, expr[2], find) THEN Unpacked(st, st[expr[2]].value_formula, find)
         ELSE expr
    ELSE <<expr[1], Unpacked(st, expr[2], find), Unpacked(st, expr[3], find)>>

\* C9: _find_all_dependencies(expr, find) called without an ignore list returns
\* expr with every quantity that depends on find unpacked, whatever calls came
\* before, so the result contains find whenever expr depends on find.
C9_FindsAllDependencies ==
    last.op = "find" =>
        /\ last.found = Unpacked(store, last.expr, last.find)
        /\ (\E q \in free_symbols(last.expr) : q = last.find \/ DependsOn(store, q, last.find))
              => last.find \in free_symbols(last.found)

(***************************************************************************)
(* main.py, the script runner                                              *)
(***************************************************************************)
\* an input file: its directory, whether it parses, and for each of its
\* commands whether executing it raises
Files ==
    {[directory |-> d, parses |-> ok, raises |-> r] :
        d \in {".", "lab"}, ok \in {TRUE}, r \in UNION {[1..n -> BOOLEAN] : n \in 0..MaxCmds}}
    \cup {[directory |-> d, parses |-> FALSE, raises |-> <<>>] : d \in {".", "lab"}}

\* path.dirname of a file name
dirname(file) == file.directory
\* parse_file: the syntax tree of a file, one statement for each command
parse_file(file, f) == [k \in 1..Len(file.raises) |-> [file |-> f, position |-> k, raises |-> file.raises[k]]]
\* interpreter.interpret: the commands of a syntax tree, in the order of the
\* statements
interpret(tree) == tree

CoreIdle == store = <<>> /\ ignore = <<>> /\ last = NoCall /\ fits = 0

\* main.py 7-16: the module's names before the first statement that can fail
InitMain ==
    /\ CoreIdle
    /\ pc = "start" /\ argv \in UNION {[1..n -> Files] : n \in 0..MaxFiles}
    /\ config = [directory |-> "."] /\ syntax_trees = <<>> /\ commands = <<>> /\ idx = 0
    /\ data = <<>> /\ generated = <<>>

\* main.py 18-25: without an input file the run ends with ValueError
Start ==
    /\ pc = "start"
    /\ IF Len(argv) < 1
       THEN pc' = "failed" /\ UNCHANGED <<config, idx>>
       ELSE pc' = "parse" /\ config' = [config EXCEPT !.directory = dirname(argv[1])] /\ idx' = 1
    /\ UNCHANGED <<coreVars, argv, syntax_trees, commands, data, generated>>

\* main.py 26-30: one turn of the loop over the file names
Parse ==
    /\ pc = "parse"
    /\ IF argv[idx].parses
       THEN /\ syntax_trees' = Append(syntax_trees, parse_file(argv[idx], idx))
            /\ IF idx < Len(argv) THEN idx' = idx + 1 /\ pc' = "parse"
               ELSE idx' = 1 /\ pc' = "interpret"
       ELSE pc' = "failed" /\ UNCHANGED <<syntax_trees, idx>>
    /\ UNCHANGED <<coreVars, argv, config, commands, data, generated>>

\* Interpret that puts the commands of a tree before those already there
InterpretPrepending ==
    /\ pc = "interpret"
    /\ commands' = interpret(syntax_trees[idx]) \o commands
    /\ IF idx < Len(syntax_trees) THEN idx' = idx + 1 /\ pc' = "interpret"
       ELSE idx' = 1 /\ pc' = IF commands' = <<>> THEN "save" ELSE "execute"
    /\ UNCHANGED <<coreVars, argv, config, syntax_trees, data, generated>>

\* main.py 31-32: one turn of the loop over the syntax trees
Interpret ==
    /\ pc = "interpret"
    /\ commands' = commands \o interpret(syntax_trees[idx])
    /\ IF idx < Len(syntax_trees) THEN idx' = idx + 1 /\ pc' = "interpret"
       ELSE idx' = 1 /\ pc' = IF commands' = <<>> THEN "save" ELSE "execute"
    /\ UNCHANGED <<coreVars, argv, config, syntax_trees, data, generated>>

\* Execute that goes on with the next command when a command raises
ExecuteCatching ==
    /\ pc = "execute"
    /\ data' = IF commands[idx].raises THEN data
               ELSE Append(data, <<commands[idx].file, commands[idx].position>>)
    /\ IF idx < Len(commands) THEN idx' = idx + 1 /\ pc' = "execute"
       ELSE idx' = idx /\ pc' = "save"
    /\ UNCHANGED <<coreVars, argv, config, syntax_trees, commands, generated>>

\* main.py 35-36: one turn of the loop over the commands; a command that does
\* not raise leaves its entry in data
Execute ==
    /\ pc = "execute"
    /\ IF commands[idx].raises
       THEN pc' = "failed" /\ UNCHANGED <<data, idx>>
       ELSE /\ data' = Append(data, <<commands[idx].file, commands[idx].position>>)
            /\ IF idx < Len(commands) THEN idx' = idx + 1 /\ pc' = "execute"
               ELSE idx' = idx /\ pc' = "save"
    /\ UNCHANGED <<coreVars, argv, config, syntax_trees, commands, generated>>

\* main.py 39: output.generate(data, config)
Generate ==
    /\ pc = "save"
    /\ generated' = Append(generated, [data |-> data, config |-> config])
    /\ pc' = "done"
    /\ UNCHANGED <<coreVars, argv, config, syntax_trees, commands, idx, data>>

NextMain == Start \/ Parse \/ Interpret \/ Execute \/ Generate
SpecMain == InitMain /\ [][NextMain]_vars

\* the commands of the files in document order: file by file as on the command
\* line, and by position within each file
RECURSIVE Document(_)
Document(f) ==
    IF f = 0 THEN <<>>
    ELSE Document(f - 1) \o [k \in 1..Len(argv[f].raises) |-> <<f, k>>]
IsPrefix(a, b) == Len(a) <= Len(b) /\ SubSeq(b, 1, Len(a)) = a
Executing == pc \in {"execute", "save", "done"} \/ data # <<>>

\* C8: every file is parsed and interpreted before a command executes; the
\* commands execute in document order on the one data mapping; output.generate
\* is called once, after the last command and never after a command raised;
\* without an input file the run fails before anything is parsed.
C8_DocumentOrder ==
    /\ Executing =>
          /\ Len(syntax_trees) = Len(argv)
          /\ [k \in 1..Len(commands) |-> <<commands[k].file, commands[k].position>>]
                = Document(Len(argv))
    /\ IsPrefix(data, Document(Len(argv)))
    /\ Len(generated) <= 1
    /\ generated # <<>> =>
          /\ generated[1].data = Document(Len(argv))
          /\ generated[1].config.directory = argv[1].directory
          /\ \A f \in 1..Len(argv) : \A k \in 1..Len(argv[f].raises) : ~argv[f].raises[k]
    /\ pc = "done" <=> Len(generated) = 1
    /\ (pc = "failed" /\ syntax_trees # <<>> /\ Len(syntax_trees) = Len(argv))
          => \E k \in 1..Len(commands) : commands[k].raises /\ Len(data) = k - 1
    /\ (argv = <<>> /\ pc # "start") =>
          pc = "failed" /\ syntax_trees = <<>> /\ commands = <<>> /\ data = <<>>
C8_Witness ==
    /\ pc = "done" /\ Len(argv) = 2 /\ Len(argv[1].raises) = 2 /\ Len(argv[2].raises) = 2
    /\ argv[1].directory = "lab" /\ argv[2].directory = "."
    /\ generated[1].data = <<<<1, 1>>, <<1, 2>>, <<2, 1>>, <<2, 2>>>>
====
